---- MODULE Spec2Model ----
(***************************************************************************)
(* Model of src/run.py: collect_files walks a directory for files whose    *)
(* lowercased name ends with one of the extensions, combine_files writes   *)
(* one header block plus decoded content per file, main sequences both.    *)
(*                                                                         *)
(* A Python str is a sequence of one-character strings.  The byte 0xFF (an *)
(* invalid UTF-8 byte) of a file's content is the token "xFF".             *)
(* The platform is POSIX: "/" separates, "\n" is written unchanged.        *)
(***************************************************************************)
EXTENDS Integers, Sequences, FiniteSets, TLC

\* ---------------------------------------------------------------- bounds
MaxEntries == 3      \* directory entries present in the scanned tree
MaxUnreadable == 2   \* regular files whose open() fails at combine time
MaxRuns == 2         \* consecutive runs of the program
MaxFailAt == 7       \* latest out.write call that may be made to fail

\* ------------------------------------------------------------- settings
INPUT_FOLDER == <<".", "/">>

OUTPUT_FILE ==
  <<"c","o","m","b","i","n","e","d","_","a","s","s","e","t","s",".","t","x","t">>

extensions == << <<".","t","s","x">>, <<".","c","s","s">>, <<".","t","s">> >>

SepWidth == 60

\* ------------------------------------------------------- str operations
\* The characters in code point order; Ord is a character's rank in it.
Alphabet ==
  <<"\n", "\r", " ", ".", "/", ":", "=",
    "A","B","C","D","E","F","G","H","I","J","K","L","M",
    "N","O","P","Q","R","S","T","U","V","W","X","Y","Z", "_",
    "a","b","c","d","e","f","g","h","i","j","k","l","m",
    "n","o","p","q","r","s","t","u","v","w","x","y","z">>

Ord(c) == CHOOSE k \in 1..Len(Alphabet) : Alphabet[k] = c

FirstUpper == Ord("A")
LastUpper == Ord("Z")
CaseOffset == Ord("a") - Ord("A")

\* str.lower() on one character, and on a str
LowerIdentity(c) == c

LowerChar(c) ==
  IF Ord(c) >= FirstUpper /\ Ord(c) <= LastUpper
    THEN Alphabet[Ord(c) + CaseOffset] ELSE c

Lower(s) == [k \in 1..Len(s) |-> LowerChar(s[k])]

\* str.endswith(suffix) and str.endswith(tuple of suffixes)
EndsWithOne(s, suf) ==
  /\ Len(suf) <= Len(s)
  /\ SubSeq(s, Len(s) - Len(suf) + 1, Len(s)) = suf

Endswith(s, sufs) == \E k \in 1..Len(sufs) : EndsWithOne(s, sufs[k])

\* a < b on str: the first differing character decides by code point,
\* a proper prefix is smaller
RECURSIVE StrLess(_, _)
StrLess(a, b) ==
  IF b = <<>> THEN FALSE
  ELSE IF a = <<>> THEN TRUE
  ELSE IF Head(a) = Head(b) THEN StrLess(Tail(a), Tail(b))
  ELSE Ord(Head(a)) < Ord(Head(b))

\* sorted(list): stable insertion by StrLess
RECURSIVE Insert(_, _)
Insert(x, l) ==
  IF l = <<>> THEN <<x>>
  ELSE IF StrLess(x, Head(l)) THEN <<x>> \o l
  ELSE <<Head(l)>> \o Insert(x, Tail(l))

RECURSIVE InsertAll(_, _)
InsertAll(l, acc) ==
  IF l = <<>> THEN acc ELSE InsertAll(Tail(l), Insert(Head(l), acc))

Unsorted(l) == l

sorted(l) == InsertAll(l, <<>>)

\* os.path.join(a, b) for a relative b
join(a, b) ==
  IF a # <<>> /\ a[Len(a)] = "/" THEN a \o b ELSE a \o <<"/">> \o b

\* "=" * n
RECURSIVE Rep(_, _)
Rep(c, n) == IF n = 0 THEN <<>> ELSE <<c>> \o Rep(c, n - 1)

Range(s) == {s[k] : k \in 1..Len(s)}

\* ----------------------------------------------------------- filesystem
\* The entries a scanned tree may hold.  kind "other" is a non-regular,
\* non-directory entry (a dangling symbolic link): os.path.isfile and
\* os.path.isdir are both False for it and open() fails.
DirA == join(INPUT_FOLDER, <<"a">>)

Candidates ==
  { [parent |-> INPUT_FOLDER, name |-> <<"X",".","T","S">>, kind |-> "file",
     content |-> <<"A", "xFF", "\r", "\n", "B">>],
    [parent |-> INPUT_FOLDER, name |-> <<"b",".","c","s","s">>, kind |-> "file",
     content |-> <<"B", "\n">>],
    [parent |-> INPUT_FOLDER, name |-> <<"n",".","t","s","x">>, kind |-> "file",
     content |-> <<"N">>],
    [parent |-> INPUT_FOLDER, name |-> <<"s","k","i","p",".","t","x","t">>,
     kind |-> "file", content |-> <<"S">>],
    [parent |-> INPUT_FOLDER, name |-> <<"l",".","t","s">>, kind |-> "other",
     content |-> <<>>],
    [parent |-> INPUT_FOLDER, name |-> <<"a">>, kind |-> "dir", content |-> <<>>],
    [parent |-> DirA, name |-> <<"x",".","t","s">>, kind |-> "file",
     content |-> <<>>],
    [parent |-> INPUT_FOLDER, name |-> <<"d",".","t","s">>, kind |-> "dir",
     content |-> <<>>] }

OldContent == <<"o", "l", "d">>

PathOf(e) == join(e.parent, e.name)

\* every entry's parent directory is the root or an entry of the tree
Closed(S) ==
  \A e \in S : e.parent = INPUT_FOLDER
               \/ \E d \in S : d.kind = "dir" /\ PathOf(d) = e.parent

Trees == {S \in SUBSET Candidates : Cardinality(S) <= MaxEntries /\ Closed(S)}

RECURSIVE Perms(_)
Perms(S) ==
  IF S = {} THEN {<<>>}
  ELSE UNION {{<<x>> \o p : p \in Perms(S \ {x})} : x \in S}

VARIABLES
  fs,            \* entries of the scanned tree, the output file excluded
  recursive,     \* the setting INCLUDE_SUBFOLDERS, passed as `recursive`
  unreadable,    \* paths of regular files whose open() for reading fails
  unlistable,    \* paths of directories whose listing raises OSError
  destOpenFails, \* open(output_file, "w") raises
  destFailAt,    \* ordinal of the out.write call that raises, 0 for none
  destExists,    \* the output file exists in the root
  dest,          \* content of the output file
  destOpen,      \* the handle `out` is open
  outCalls,      \* out.write calls made in this run
  pc,            \* position of main
  files,         \* main's `files` / combine_files' file_list
  i,             \* index in file_list of the file being processed
  stdout,        \* lines printed in this run
  run,           \* ordinal of the current run
  prevOut        \* the output file as each run so far found it at its start

vars == <<fs, recursive, unreadable, unlistable, destOpenFails, destFailAt,
          destExists, dest, destOpen, outCalls, pc, files, i, stdout, run,
          prevOut>>

env == <<fs, recursive, unreadable, unlistable, destOpenFails, destFailAt>>

\* the entries of the tree as the filesystem shows them, output file included
OutEntry ==
  [parent |-> INPUT_FOLDER, name |-> OUTPUT_FILE, kind |-> "file",
   content |-> dest]

Entries == IF destExists THEN fs \cup {OutEntry} ELSE fs

EntryAt(p) == CHOOSE e \in Entries : PathOf(e) = p

\* os.path.isfile(path)
isfile(p) == \E e \in Entries : PathOf(e) = p /\ e.kind = "file"

\* the names os.listdir / os.scandir yields for a directory, in the order
\* `order` (a sequence of all entries) enumerates them
RECURSIVE ListIn(_, _)
ListIn(top, order) ==
  IF order = <<>> THEN <<>>
  ELSE IF Head(order).parent = top
    THEN <<Head(order)>> \o ListIn(top, Tail(order))
    ELSE ListIn(top, Tail(order))

\* lines 27-30: the matching names of one directory of the walk
RECURSIVE MatchInDir(_, _)
MatchInDir(top, ents) ==
  IF ents = <<>> THEN <<>>
  ELSE LET e == Head(ents)
           rest == MatchInDir(top, Tail(ents))
       IN  IF e.kind # "dir" /\ Endswith(Lower(e.name), extensions)
             THEN <<join(top, e.name)>> \o rest
             ELSE rest

\* lines 26-30: os.walk(folder) with its defaults (topdown, onerror=None,
\* followlinks=False): a directory whose scandir raises is skipped silently
RECURSIVE WalkFrom(_, _)
RECURSIVE WalkDirs(_, _, _)
WalkFrom(top, order) ==
  IF top \in unlistable THEN <<>>
  ELSE LET ents == ListIn(top, order)
       IN  MatchInDir(top, ents) \o WalkDirs(top, ents, order)

WalkDirs(top, ents, order) ==
  IF ents = <<>> THEN <<>>
  ELSE LET e == Head(ents)
           rest == WalkDirs(top, Tail(ents), order)
       IN  IF e.kind = "dir" THEN WalkFrom(join(top, e.name), order) \o rest
           ELSE rest

\* lines 32-35
RECURSIVE ListMatches(_, _)
ListMatches(folder, ents) ==
  IF ents = <<>> THEN <<>>
  ELSE LET e == Head(ents)
           full_path == join(folder, e.name)
           rest == ListMatches(folder, Tail(ents))
       IN  IF isfile(full_path) /\ Endswith(Lower(e.name), extensions)
             THEN <<full_path>> \o rest
             ELSE rest

\* os.listdir(folder) raises, which collect_files does not catch
CollectRaises(folder, rec) == ~rec /\ folder \in unlistable

collect_files(folder, exts, rec, order) ==
  LET found_files == IF rec THEN WalkFrom(folder, order)
                     ELSE ListMatches(folder, ListIn(folder, order))
  IN  sorted(found_files)

\* -------------------------------------------------------------- combiner
\* open(..., "r", encoding="utf-8", errors="ignore").read(): invalid bytes
\* are dropped, then universal newlines turn "\r\n" and "\r" into "\n"
RECURSIVE Newlines(_)
Newlines(s) ==
  IF s = <<>> THEN <<>>
  ELSE IF Head(s) = "\r"
    THEN IF Len(s) >= 2 /\ s[2] = "\n"
           THEN <<"\n">> \o Newlines(SubSeq(s, 3, Len(s)))
           ELSE <<"\n">> \o Newlines(Tail(s))
    ELSE <<Head(s)>> \o Newlines(Tail(s))

Decode(bytes) == Newlines(SelectSeq(bytes, LAMBDA b : b # "xFF"))

\* open(output_file, "w"): the prior content is truncated
OpenAppend(old) == old

OpenForWrite(old) == <<>>

\* "=" * 60
Separator == Rep("=", SepWidth)

\* lines 48-51: the four strings written before a file's content
HeaderNoBlank(file_path) ==
  << <<"\n">>,
     Separator \o <<"\n">>,
     <<"F","I","L","E",":"," ">> \o file_path \o <<"\n">>,
     Separator \o <<"\n">> >>

HeaderWrites(file_path) ==
  << <<"\n">>,
     Separator \o <<"\n">>,
     <<"F","I","L","E",":"," ">> \o file_path \o <<"\n">>,
     Separator \o <<"\n", "\n">> >>

\* lines 55-56: the two strings written for a file that was read
BodyWrites(content) == << Decode(content), <<"\n", "\n">> >>

\* out.write(s) for each s of `parts` in turn: the call whose ordinal is
\* destFailAt raises OSError and writes nothing, the later ones are not made
RECURSIVE WriteAll(_, _, _)
WriteAll(d, calls, parts) ==
  IF parts = <<>> THEN [dest |-> d, calls |-> calls, raised |-> FALSE]
  ELSE IF calls + 1 = destFailAt
    THEN [dest |-> d, calls |-> calls + 1, raised |-> TRUE]
    ELSE WriteAll(d \o Head(parts), calls + 1, Tail(parts))

\* open(file_path, "r") raises: the file cannot be opened, or the path is
\* not something open() can read
OpenRaises(file_path) == file_path \in unreadable \/ ~isfile(file_path)

\* line 57: `except Exception` catches every exception class raised here
CaughtNothing(exc) == FALSE

Caught(exc) == exc \in {"OSError", "Exception"}

\* line 77: `not files`
NeverEmpty(l) == FALSE

NotFiles(l) == Len(l) = 0

\* --------------------------------------------------------------- stdout
Line(kind, path, n) == [kind |-> kind, path |-> path, n |-> n]

ScanLine == Line("Scanning", <<>>, 0)
FoundOneMore(l) == Line("Found", <<>>, Len(l) + 1)
FoundLine(l) == Line("Found", <<>>, Len(l))
NoFilesLine == Line("NoFiles", <<>>, 0)
AddingLine(file_path) == Line("Adding", file_path, 0)
FailedLine(file_path) == Line("Failed", file_path, 0)
DoneLine == Line("Done", OUTPUT_FILE, 0)

\* ---------------------------------------------------------------- states
TypeOK ==
  /\ fs \in Trees
  /\ recursive \in BOOLEAN
  /\ destOpenFails \in BOOLEAN
  /\ destFailAt \in 0..MaxFailAt
  /\ destExists \in BOOLEAN
  /\ destOpen \in BOOLEAN
  /\ outCalls \in Nat
  /\ pc \in {"start", "found", "open", "adding", "header", "body", "close",
             "donemsg", "done", "aborted"}
  /\ i \in 0..Len(files)
  /\ run \in 1..MaxRuns

InitCommon ==
  /\ fs \in Trees
  /\ recursive \in BOOLEAN
  /\ unreadable \in
       {U \in SUBSET {PathOf(e) : e \in {c \in fs : c.kind = "file"}} :
          Cardinality(U) <= MaxUnreadable}
  /\ destExists \in BOOLEAN
  /\ dest = IF destExists THEN OldContent ELSE <<>>
  /\ destOpen = FALSE
  /\ outCalls = 0
  /\ pc = "start"
  /\ files = <<>>
  /\ i = 0
  /\ stdout = <<>>
  /\ run = 1
  /\ prevOut = <<[exists |-> destExists, content |-> dest]>>

\* every directory can be listed and the destination can be written
Init ==
  /\ InitCommon
  /\ unlistable = {}
  /\ destOpenFails = FALSE
  /\ destFailAt = 0

\* some directory cannot be listed, or the destination fails
InitFaults ==
  /\ InitCommon
  /\ unlistable \in
       SUBSET ({INPUT_FOLDER} \cup {PathOf(e) : e \in {c \in fs : c.kind = "dir"}})
  /\ destOpenFails \in BOOLEAN
  /\ destFailAt \in 0..MaxFailAt

\* --------------------------------------------------------------- actions
\* lines 65-73: the scan-start notice and the call of collect_files
MainScan ==
  /\ pc = "start"
  /\ stdout' = Append(stdout, ScanLine)
  /\ IF CollectRaises(INPUT_FOLDER, recursive)
       THEN /\ pc' = "aborted"
            /\ files' = files
       ELSE /\ files' \in {collect_files(INPUT_FOLDER, extensions, recursive, order) :
                             order \in Perms(Entries)}
            /\ pc' = "found"
  /\ UNCHANGED <<env, destExists, dest, destOpen, outCalls, i, run, prevOut>>

\* lines 75-79: the count, and the early return on an empty list
MainFound ==
  /\ pc = "found"
  /\ IF NotFiles(files)
       THEN /\ stdout' = stdout \o <<FoundLine(files), NoFilesLine>>
            /\ pc' = "done"
       ELSE /\ stdout' = Append(stdout, FoundLine(files))
            /\ pc' = "open"
  /\ UNCHANGED <<env, destExists, dest, destOpen, outCalls, files, i, run,
                 prevOut>>

\* line 43: open(output_file, "w")
CombineOpen ==
  /\ pc = "open"
  /\ IF destOpenFails
       THEN /\ pc' = "aborted"
            /\ UNCHANGED <<destExists, dest, destOpen, i>>
       ELSE /\ destExists' = TRUE
            /\ dest' = OpenForWrite(dest)
            /\ destOpen' = TRUE
            /\ i' = 1
            /\ pc' = IF Len(files) >= 1 THEN "adding" ELSE "close"
  /\ UNCHANGED <<env, outCalls, files, stdout, run, prevOut>>

\* line 46
CombineAdding ==
  /\ pc = "adding"
  /\ stdout' = Append(stdout, AddingLine(files[i]))
  /\ pc' = "header"
  /\ UNCHANGED <<env, destExists, dest, destOpen, outCalls, files, i, run,
                 prevOut>>

\* lines 48-51: outside the try, so a failing write leaves the with block
CombineHeader ==
  /\ pc = "header"
  /\ LET w == WriteAll(dest, outCalls, HeaderWrites(files[i]))
     IN  /\ dest' = w.dest
         /\ outCalls' = w.calls
         /\ IF w.raised
              THEN pc' = "aborted" /\ destOpen' = FALSE
              ELSE pc' = "body" /\ destOpen' = destOpen
  /\ UNCHANGED <<env, destExists, files, i, stdout, run, prevOut>>

\* lines 53-58: everything the try block raises is handled by line 57
CombineBody ==
  /\ pc = "body"
  /\ LET file_path == files[i]
         opened == ~OpenRaises(file_path)
         w == IF opened
                THEN WriteAll(dest, outCalls,
                              BodyWrites(EntryAt(file_path).content))
                ELSE [dest |-> dest, calls |-> outCalls, raised |-> TRUE]
     IN  /\ dest' = w.dest
         /\ outCalls' = w.calls
         /\ IF w.raised
              THEN IF Caught("OSError")
                     THEN /\ stdout' = Append(stdout, FailedLine(file_path))
                          /\ destOpen' = destOpen
                          /\ i' = IF i < Len(files) THEN i + 1 ELSE i
                          /\ pc' = IF i < Len(files) THEN "adding" ELSE "close"
                     ELSE /\ stdout' = stdout
                          /\ destOpen' = FALSE
                          /\ i' = i
                          /\ pc' = "aborted"
              ELSE /\ stdout' = stdout
                   /\ destOpen' = destOpen
                   /\ i' = IF i < Len(files) THEN i + 1 ELSE i
                   /\ pc' = IF i < Len(files) THEN "adding" ELSE "close"
  /\ UNCHANGED <<env, destExists, files, run, prevOut>>

\* the end of the with block of line 43
CombineClose ==
  /\ pc = "close"
  /\ destOpen' = FALSE
  /\ pc' = "donemsg"
  /\ UNCHANGED <<env, destExists, dest, outCalls, files, i, stdout, run,
                 prevOut>>

\* line 83
MainDone ==
  /\ pc = "donemsg"
  /\ stdout' = Append(stdout, DoneLine)
  /\ pc' = "done"
  /\ UNCHANGED <<env, destExists, dest, destOpen, outCalls, files, i, run,
                 prevOut>>

\* lines 88-89: the program is started again on the same tree
Rerun ==
  /\ pc \in {"done", "aborted"}
  /\ run < MaxRuns
  /\ run' = run + 1
  /\ prevOut' = Append(prevOut, [exists |-> destExists, content |-> dest])
  /\ pc' = "start"
  /\ files' = <<>>
  /\ i' = 0
  /\ stdout' = <<>>
  /\ outCalls' = 0
  /\ UNCHANGED <<env, destExists, dest, destOpen>>

Next ==
  \/ MainScan
  \/ MainFound
  \/ CombineOpen
  \/ CombineAdding
  \/ CombineHeader
  \/ CombineBody
  \/ CombineClose
  \/ MainDone
  \/ Rerun

Spec == Init /\ [][Next]_vars

SpecFaults == InitFaults /\ [][Next]_vars

\* ------------------------------------------------------ claim vocabulary
\* Written from the claims' words, independently of the operators above.
Upper2Lower == ("X" :> "x") @@ ("T" :> "t") @@ ("S" :> "s") @@ ("C" :> "c")

SaidLower(name) ==
  [k \in 1..Len(name) |->
     IF name[k] \in DOMAIN Upper2Lower THEN Upper2Lower[name[k]] ELSE name[k]]

SaidSuffixes == { <<".","t","s","x">>, <<".","c","s","s">>, <<".","t","s">> }

SaidMatch(name) ==
  \E suf \in SaidSuffixes :
    /\ Len(name) >= Len(suf)
    /\ \A k \in 1..Len(suf) :
         SaidLower(name)[Len(name) - Len(suf) + k] = suf[k]

Sixty == <<"=","=","=","=","=","=","=","=","=","=","=","=","=","=","=",
           "=","=","=","=","=","=","=","=","=","=","=","=","=","=","=",
           "=","=","=","=","=","=","=","=","=","=","=","=","=","=","=",
           "=","=","=","=","=","=","=","=","=","=","=","=","=","=","=">>

FileTag == <<"F","I","L","E",":"," ">>

SaidHeader(p) ==
  <<"\n">> \o Sixty \o <<"\n">> \o FileTag \o p \o <<"\n">> \o Sixty
    \o <<"\n">> \o <<"\n">>

\* the file at p cannot be opened or read when combine_files reaches it
Fails(p) == p \in unreadable \/ \A e \in Entries : PathOf(e) = p => e.kind # "file"

SaidBlock(p) ==
  IF Fails(p) THEN SaidHeader(p)
  ELSE SaidHeader(p) \o Decode(EntryAt(p).content) \o <<"\n", "\n">>

RECURSIVE SaidDoc(_)
SaidDoc(fl) == IF fl = <<>> THEN <<>> ELSE SaidBlock(Head(fl)) \o SaidDoc(Tail(fl))

\* the positions of a text at which a "FILE: " line starts
HeaderStarts(d) ==
  {k \in 1..(Len(d) - Len(FileTag) + 1) :
     /\ k = 1 \/ d[k - 1] = "\n"
     /\ SubSeq(d, k, k + Len(FileTag) - 1) = FileTag}

\* the last position of the line that starts at k
LineEnd(d, k) ==
  LET nl == {j \in k..Len(d) : d[j] = "\n"}
  IN  IF nl = {} THEN Len(d)
      ELSE (CHOOSE j \in nl : \A j2 \in nl : j <= j2) - 1

\* the paths of the "FILE: <path>" lines of a text, in order
HeaderPaths(d) ==
  LET hs == HeaderStarts(d)
      nth(n) == CHOOSE k \in hs : Cardinality({k2 \in hs : k2 < k}) = n - 1
  IN  [n \in 1..Cardinality(hs) |->
         SubSeq(d, nth(n) + Len(FileTag), LineEnd(d, nth(n)))]

IsPrefix(a, b) == Len(a) <= Len(b) /\ SubSeq(b, 1, Len(a)) = a

InCombine == pc \in {"adding", "header", "body", "close", "donemsg"}
Combined == pc = "done" /\ Len(files) > 0

\* files of file_list whose iteration of the loop has ended
Processed ==
  IF pc \in {"adding", "header", "body"} THEN SubSeq(files, 1, i - 1)
  ELSE files

PathX == join(INPUT_FOLDER, <<"X",".","T","S">>)
PathB == join(INPUT_FOLDER, <<"b",".","c","s","s">>)
PathAX == join(DirA, <<"x",".","t","s">>)
PathOut == join(INPUT_FOLDER, OUTPUT_FILE)

\* ----------------------------------------------------------------- claims

\* C1: when collect_files has returned, a regular file under the root is in
\* the list if and only if its lowercased name ends with one of the
\* extensions and, in non-recursive mode, it is a direct child of the root.
C1_FilterCorrectness ==
  pc = "found" =>
    \A e \in Entries :
      e.kind = "file" =>
        ( PathOf(e) \in Range(files)
          <=> (SaidMatch(e.name) /\ (recursive \/ e.parent = INPUT_FOLDER)) )

C1_Witness ==
  /\ pc = "found"
  /\ {PathX, PathAX} \subseteq {PathOf(e) : e \in fs}
  /\ ~recursive
  /\ files = <<PathX>>

\* C2: whichever files fail to open, a completed combine_files has written
\* one header per listed file in list order, the content after a readable
\* file's header and nothing after a failing file's header, one diagnostic
\* per failing file, and the run is never aborted by a failing file.
C2_PartialFailureIsolation ==
  /\ pc # "aborted"
  /\ Combined =>
       /\ HeaderPaths(dest) = files
       /\ dest = SaidDoc(files)
       /\ \A k \in 1..Len(files) :
            Fails(files[k]) <=> FailedLine(files[k]) \in Range(stdout)

C2_Witness ==
  /\ Combined
  /\ Len(files) = 3
  /\ ~Fails(files[1]) /\ Fails(files[2]) /\ ~Fails(files[3])
  /\ FailedLine(files[2]) \in Range(stdout)

\* C3 (as claimed): once collect_files has met a directory that cannot be
\* listed, the run is aborted.
RECURSIVE Visited(_)
Visited(p) ==
  \/ p = INPUT_FOLDER
  \/ /\ recursive
     /\ \E d \in fs : /\ d.kind = "dir" /\ PathOf(d) = p
                      /\ d.parent \notin unlistable /\ Visited(d.parent)

C3_TraversalErrorAborts ==
  (pc # "start" /\ \E p \in unlistable : Visited(p)) => pc = "aborted"

\* C4: with an empty list main ends after the "No files found." notice: the
\* destination is as the run found it and no completion notice is printed.
C4_EmptyListLeavesDestination ==
  (pc = "done" /\ Len(files) = 0) =>
    /\ stdout = <<ScanLine, Line("Found", <<>>, 0), NoFilesLine>>
    /\ destExists = prevOut[run].exists
    /\ dest = prevOut[run].content
    /\ ~destOpen
    /\ outCalls = 0

C4_Witness ==
  /\ pc = "done" /\ Len(files) = 0
  /\ fs # {}
  /\ destExists /\ dest = OldContent

\* C5: the returned list is strictly ascending, hence duplicate free, and
\* the headers in the output are in the order of the list.
C5_SortedUnique ==
  /\ pc # "start" =>
       \A k \in 1..(Len(files) - 1) : StrLess(files[k], files[k + 1])
  /\ InCombine \/ Combined =>
       LET hp == HeaderPaths(dest)
       IN  /\ IsPrefix(hp, files)
           /\ \A k \in 1..(Len(hp) - 1) : StrLess(hp[k], hp[k + 1])
           /\ Combined => hp = files

C5_Witness ==
  /\ Combined
  /\ files = <<PathAX, PathB>>
  /\ HeaderPaths(dest) = files

\* C6 (as claimed): once opening the destination or a write to it has
\* failed, the run is aborted.
C6_DestinationFailureAborts ==
  /\ (destOpenFails /\ pc \notin {"start", "found", "open"})
       => (pc = "aborted" \/ Len(files) = 0)
  /\ (destFailAt > 0 /\ outCalls >= destFailAt) => pc = "aborted"

\* C7: a second completed run leaves the destination as the first left it,
\* and does not take the destination as an input.
C7_RerunIdentical ==
  run >= 2 =>
    /\ pc \notin {"start", "aborted"} => PathOut \notin Range(files)
    /\ pc = "done" =>
         /\ destExists = prevOut[run].exists
         /\ dest = prevOut[run].content

C7_Witness ==
  /\ run = 2 /\ pc = "done"
  /\ prevOut[1] = [exists |-> TRUE, content |-> OldContent]
  /\ Len(files) >= 2
  /\ dest # OldContent
  /\ dest = prevOut[2].content

\* C8: at the start of each iteration and after the loop the destination is
\* exactly the concatenation, in list order, of the blocks of the files
\* processed so far; in between, the header of the current file is added.
C8_BlockFormat ==
  /\ pc \in {"adding", "header", "close", "donemsg"} \/ Combined
       => dest = SaidDoc(Processed)
  /\ pc = "body" => dest = SaidDoc(Processed) \o SaidHeader(files[i])

C8_Witness ==
  /\ pc = "close"
  /\ files = <<PathX, PathB>>
  /\ unreadable = {}
  /\ dest = SaidHeader(PathX) \o <<"A", "\n", "B", "\n", "\n">>
            \o SaidHeader(PathB) \o <<"B", "\n", "\n", "\n">>

\* C9 (as claimed): every path collect_files returns is a regular file.
C9_OnlyRegularFiles ==
  pc = "found" => \A p \in Range(files) : isfile(p)

\* C10: the notices come in the order scan start, count, then either the
\* no-files notice or one Adding line per file in list order, then the
\* completion notice; a file's Adding line precedes its header; the
\* completion notice follows the close; the count is the number of Adding
\* lines and of headers.
Notices == SelectSeq(stdout, LAMBDA l : l.kind # "Failed")

SaidNotices ==
  <<ScanLine, Line("Found", <<>>, Len(files))>>
    \o (IF Len(files) = 0 THEN <<NoFilesLine>>
        ELSE [k \in 1..Len(files) |-> Line("Adding", files[k], 0)] \o <<DoneLine>>)

Addings == SelectSeq(stdout, LAMBDA l : l.kind = "Adding")

C10_NoticeOrder ==
  /\ pc = "start" => stdout = <<>>
  /\ pc \notin {"start", "aborted"} => IsPrefix(Notices, SaidNotices)
  /\ pc = "done" => Notices = SaidNotices
  /\ InCombine \/ Combined =>
       LET hp == HeaderPaths(dest)
       IN  /\ Len(hp) = Len(Addings) - (IF pc = "header" THEN 1 ELSE 0)
           /\ \A k \in 1..Len(hp) : Addings[k].path = hp[k]
           /\ Combined => Len(Addings) = Len(files) /\ Len(hp) = Len(files)
  /\ DoneLine \in Range(stdout) => ~destOpen /\ pc = "done"

C10_Witness ==
  /\ Combined
  /\ Len(files) = 2
  /\ stdout[Len(stdout)] = DoneLine
  /\ FailedLine(files[1]) \in Range(stdout)

====
